---- MODULE Spec2Model ----
(***************************************************************************)
(* A model of junk-lang's front end: the tokenizer (junk/lexer) and the    *)
(* Pratt parser (junk/parser).                                             *)
(*                                                                         *)
(* Bytes are their ASCII codes; a string is a sequence of bytes.  A token  *)
(* is a record [Type, Literal].  The parser reads its tokens from a token  *)
(* stream: the tokens of the input followed by EOF for ever.  The parse    *)
(* functions are operators that take the parser record p and return the    *)
(* record [p |-> the parser afterwards, node |-> the value returned].      *)
(***************************************************************************)
EXTENDS Integers, Sequences, FiniteSets, TLC

VARIABLES
    p,          \* parser run: the Parser record
    program,    \* parser run: Program.Statements of ParseProgram
    pc,         \* parser run: where control is inside ParseProgram
    src,        \* tokenizer run: the input byte string
    lx,         \* tokenizer run: the Lexer record
    tok,        \* tokenizer run: the token the last NextToken call returned
    ntok,       \* tokenizer run: the number of NextToken calls so far
    lits,       \* tokenizer run: the literals of the tokens returned, joined
    lines,      \* REPL: the lines of `in` not read yet
    out,        \* REPL: what was written to `out`
    calls,      \* REPL: the calls into package evaluator for the current line
    env,        \* REPL: the environment Start holds
    qnode,      \* quote: the node quote is called with
    quoted,     \* quote: the object quote returned
    visited     \* a range over the Pairs of a parsed HashLiteral

parserVars == <<p, program, pc>>

lexVars == <<src, lx, tok, ntok, lits>>

replVars == <<lines, out, calls, env>>

quoteVars == <<qnode, quoted>>

vars == <<parserVars, lexVars, replVars, quoteVars, visited>>

\* what a step of the parser leaves alone
notParser == <<lexVars, replVars, quoteVars, visited>>

(***************************************************************************)
(* Bounds                                                                  *)
(***************************************************************************)
\* the error list and the count of tokens pulled stop growing here; only a
\* run that stays in the loop of a parseBlockStatement gets this far
MaxErrors == 12
MaxPulls == 24

(***************************************************************************)
(* Tokens                                                                  *)
(***************************************************************************)
Tok(type, lit) == [Type |-> type, Literal |-> lit]

\* the zero value of token.Token
ZeroTok == Tok("", <<>>)

EOFTok == Tok("EOF", <<>>)

(***************************************************************************)
(* Precedences (parser, part_001:16-50)                                    *)
(***************************************************************************)
LOWEST == 1
EQUALS == 2
LESSGREATER == 3
SUM == 4
PRODUCT == 5
PREFIX == 6
CALL == 7
INDEX == 8

precedencesMutSumProduct(t) ==
    CASE t \in {"EQ", "NOT_EQ"} -> EQUALS
      [] t \in {"LT", "GT"} -> LESSGREATER
      [] t \in {"PLUS", "MINUS", "SLASH", "ASTERISK"} -> SUM
      [] t = "LPAREN" -> CALL
      [] t = "LBRACKET" -> INDEX
      [] OTHER -> 0

\* the map precedences; 0 stands for "no entry"
precedences(t) ==
    CASE t \in {"EQ", "NOT_EQ"} -> EQUALS
      [] t \in {"LT", "GT"} -> LESSGREATER
      [] t \in {"PLUS", "MINUS"} -> SUM
      [] t \in {"SLASH", "ASTERISK"} -> PRODUCT
      [] t = "LPAREN" -> CALL
      [] t = "LBRACKET" -> INDEX
      [] OTHER -> 0

\* the keys of prefixParseFns after New
prefixParseFns ==
    {"IDENT", "INT", "BANG", "MINUS", "TRUE", "FALSE", "LPAREN", "IF",
     "FUNCTION", "STRING", "LBRACKET", "LBRACE", "MACRO"}

\* the keys of infixParseFns after New
infixParseFns ==
    {"PLUS", "MINUS", "SLASH", "ASTERISK", "EQ", "NOT_EQ", "LT", "GT",
     "LPAREN", "LBRACKET"}

(***************************************************************************)
(* The token stream the parser reads                                       *)
(***************************************************************************)
\* the token the lexer hands out as its (n+1)-th: EOF once the input is used up
StreamToken(toks, n) == IF n < Len(toks) THEN toks[n + 1] ELSE EOFTok

(***************************************************************************)
(* Parser: window and errors                                               *)
(***************************************************************************)
Nil == [kind |-> "nil"]

IsNil(n) == n.kind = "nil"

\* a nil pointer of a concrete type held in an interface value: not equal to nil
TypedNil(type) == [kind |-> "nilptr", type |-> type]

NilSlice == [isNil |-> TRUE, elems |-> <<>>]

Slice(s) == [isNil |-> FALSE, elems |-> s]

R(q, n) == [p |-> q, node |-> n]

\* the new token goes to curToken as well: peekToken is never looked at
nextTokenMutNoShift(q) ==
    IF q.hung THEN q
    ELSE [q EXCEPT !.curToken = StreamToken(q.toks, q.pulls),
                   !.peekToken = StreamToken(q.toks, q.pulls),
                   !.pulls = IF q.pulls < MaxPulls THEN q.pulls + 1 ELSE q.pulls]

nextToken(q) ==
    IF q.hung THEN q
    ELSE [q EXCEPT !.curToken = q.peekToken,
                   !.peekToken = StreamToken(q.toks, q.pulls),
                   !.pulls = IF q.pulls < MaxPulls THEN q.pulls + 1 ELSE q.pulls]

New(toks) ==
    nextToken(nextToken(
        [toks |-> toks, pulls |-> 0, errors |-> <<>>,
         curToken |-> ZeroTok, peekToken |-> ZeroTok, hung |-> FALSE]))

Errors(q) == q.errors

curTokenIs(q, t) == q.curToken.Type = t

peekTokenIs(q, t) == q.peekToken.Type = t

appendError(q, msg) ==
    IF q.hung \/ Len(q.errors) >= MaxErrors THEN q
    ELSE [q EXCEPT !.errors = Append(q.errors, msg)]

\* the message replaces the list instead of being appended to it
peekErrorMutOverwrite(q, t) ==
    [q EXCEPT !.errors = <<[msg |-> "expected next token to be", want |-> t,
                            got |-> q.peekToken.Type]>>]

peekError(q, t) ==
    appendError(q, [msg |-> "expected next token to be", want |-> t,
                    got |-> q.peekToken.Type])

noPrefixParseFnError(q, t) ==
    appendError(q, [msg |-> "no prefix parse function for", want |-> t,
                    got |-> ""])

\* the window moves on whether or not the token is the expected one
expectPeekMutAdvance(q, t) ==
    IF peekTokenIs(q, t) THEN [ok |-> TRUE, p |-> nextToken(q)]
    ELSE [ok |-> FALSE, p |-> nextToken(peekError(q, t))]

\* returns [ok, p]
expectPeek(q, t) ==
    IF peekTokenIs(q, t) THEN [ok |-> TRUE, p |-> nextToken(q)]
    ELSE [ok |-> FALSE, p |-> peekError(q, t)]

peekPrecedence(q) ==
    IF precedences(q.peekToken.Type) # 0 THEN precedences(q.peekToken.Type)
    ELSE LOWEST

curPrecedence(q) ==
    IF precedences(q.curToken.Type) # 0 THEN precedences(q.curToken.Type)
    ELSE LOWEST

(***************************************************************************)
(* strconv.ParseInt(s, 0, 64) on a run of ASCII digits.  Base 0 reads a    *)
(* leading "0" as the octal prefix.  The literals of the model have a few  *)
(* digits, so the value always fits in 64 bits.                            *)
(***************************************************************************)

RECURSIVE digitsValue(_, _, _)
\* [ok, value]: the digits of s read in the base, from accumulator acc
digitsValue(s, base, acc) ==
    IF s = <<>> THEN [ok |-> TRUE, value |-> acc]
    ELSE IF Head(s) - 48 >= base THEN [ok |-> FALSE, value |-> 0]
    ELSE digitsValue(Tail(s), base, acc * base + (Head(s) - 48))

ParseInt(s) ==
    IF s = <<>> THEN [ok |-> FALSE, value |-> 0]
    ELSE IF Head(s) = 48 THEN digitsValue(Tail(s), 8, 0)
    ELSE digitsValue(s, 10, 0)

(***************************************************************************)
(* Parser: expressions and statements (part_001:92-542)                    *)
(*                                                                         *)
(* Bind(r, K) goes on with K(parser, value) after a call that returned r;  *)
(* Try(e, nil, K) is "if !p.expectPeek(t) { return nil }" followed by K.   *)
(* Both take the result from a one-element set, so that it is computed     *)
(* once however often K uses it.                                           *)
(***************************************************************************)
Bind(r, K(_, _)) == CHOOSE y \in {K(x.p, x.node) : x \in {r}} : TRUE

Try(e, nil, K(_)) ==
    CHOOSE y \in {IF ~x.ok THEN R(x.p, nil) ELSE K(x.p) : x \in {e}} : TRUE

\* hash.Pairs[key] = value on a Go map keyed by the node's identity: two
\* parsed nodes are never the same key, two nil keys are.  The map is kept
\* as the sequence of its entries in the order the keys were first put.
RECURSIVE mapPut(_, _, _)
mapPut(pairs, key, value) ==
    IF pairs = <<>> THEN <<[key |-> key, value |-> value]>>
    ELSE IF IsNil(Head(pairs).key) /\ IsNil(key)
         THEN <<[key |-> key, value |-> value]>> \o Tail(pairs)
    ELSE <<Head(pairs)>> \o mapPut(Tail(pairs), key, value)

RECURSIVE parseExpression(_, _), infixLoop(_, _, _), prefixParse(_),
          infixParse(_, _), parseStatement(_), blockLoop(_, _),
          parseBlockStatement(_), listLoop(_, _), parseExpressionList(_, _),
          argsLoop(_, _), parseCallArguments(_), hashLoop(_, _),
          parseHashLiteral(_), parseIfExpression(_), parseFunctionLiteral(_),
          parseMacroLiteral(_), parseGroupedExpression(_),
          parsePrefixExpression(_), parseInfixExpression(_, _),
          parseCallExpression(_, _), parseIndexExpression(_, _),
          parseArrayLiteral(_), parseLetStatement(_), parseReturnStatement(_),
          parseWhileStatement(_), parseExpressionStatement(_)

\* &ast.Identifier{Token: p.curToken, Value: p.curToken.Literal}
identifierOf(q) ==
    [kind |-> "Identifier", Token |-> q.curToken, Value |-> q.curToken.Literal]

parseIdentifier(q) == R(q, identifierOf(q))

parseBoolean(q) ==
    R(q, [kind |-> "Boolean", Token |-> q.curToken,
          Value |-> curTokenIs(q, "TRUE")])

parseStringLiteral(q) ==
    R(q, [kind |-> "StringLiteral", Token |-> q.curToken,
          Value |-> q.curToken.Literal])

integerLiteralOf(q, r) ==
    IF ~r.ok
    THEN R(appendError(q, [msg |-> "could not parse as integer",
                           lit |-> q.curToken.Literal]), Nil)
    ELSE R(q, [kind |-> "IntegerLiteral", Token |-> q.curToken,
               Value |-> r.value])

parseIntegerLiteral(q) == integerLiteralOf(q, ParseInt(q.curToken.Literal))

\* the operand is parsed with the lowest precedence
parsePrefixExpressionMutLowest(q) ==
    Bind(parseExpression(nextToken(q), LOWEST), LAMBDA q1, right :
        R(q1, [kind |-> "PrefixExpression", Token |-> q.curToken,
               Operator |-> q.curToken.Literal, Right |-> right]))

parsePrefixExpression(q) ==
    Bind(parseExpression(nextToken(q), PREFIX), LAMBDA q1, right :
        R(q1, [kind |-> "PrefixExpression", Token |-> q.curToken,
               Operator |-> q.curToken.Literal, Right |-> right]))

parseInfixExpressionMutRightAssoc(q, left) ==
    Bind(parseExpression(nextToken(q), curPrecedence(q) - 1), LAMBDA q1, right :
        R(q1, [kind |-> "InfixExpression", Token |-> q.curToken,
               Operator |-> q.curToken.Literal, Left |-> left,
               Right |-> right]))

parseInfixExpression(q, left) ==
    Bind(parseExpression(nextToken(q), curPrecedence(q)), LAMBDA q1, right :
        R(q1, [kind |-> "InfixExpression", Token |-> q.curToken,
               Operator |-> q.curToken.Literal, Left |-> left,
               Right |-> right]))

parseGroupedExpression(q) ==
    Bind(parseExpression(nextToken(q), LOWEST), LAMBDA q1, exp :
    Try(expectPeek(q1, "RPAREN"), Nil, LAMBDA q2 :
        R(q2, exp)))

\* the loop of parseBlockStatement.  With curToken on EOF the loop is no
\* longer unrolled here: the parser is returned with hung set, at the head of
\* an iteration, and the run goes on one iteration at a time (BlockLoop*).
blockLoop(q, stmts) ==
    IF q.hung \/ curTokenIs(q, "RBRACE") THEN R(q, stmts)
    ELSE IF curTokenIs(q, "EOF") THEN R([q EXCEPT !.hung = TRUE], stmts)
    ELSE Bind(parseStatement(q), LAMBDA q1, stmt :
             blockLoop(nextToken(q1),
                       IF ~IsNil(stmt) THEN Append(stmts, stmt) ELSE stmts))

parseBlockStatement(q) ==
    Bind(blockLoop(nextToken(q), <<>>), LAMBDA q1, stmts :
        R(q1, [kind |-> "BlockStatement", Token |-> q.curToken,
               Statements |-> stmts]))

ifExpressionOf(q, condition, consequence, alternative) ==
    [kind |-> "IfExpression", Token |-> q.curToken, Condition |-> condition,
     Consequence |-> consequence, Alternative |-> alternative]

parseIfExpression(q) ==
    Try(expectPeek(q, "LPAREN"), Nil, LAMBDA q1 :
    Bind(parseExpression(nextToken(q1), LOWEST), LAMBDA q2, condition :
    Try(expectPeek(q2, "RPAREN"), Nil, LAMBDA q3 :
    Try(expectPeek(q3, "LBRACE"), Nil, LAMBDA q4 :
    Bind(parseBlockStatement(q4), LAMBDA q5, consequence :
        IF ~peekTokenIs(q5, "ELSE")
        THEN R(q5, ifExpressionOf(q, condition, consequence, Nil))
        ELSE Try(expectPeek(nextToken(q5), "LBRACE"), Nil, LAMBDA q6 :
             Bind(parseBlockStatement(q6), LAMBDA q7, alternative :
                 R(q7, ifExpressionOf(q, condition, consequence,
                                      alternative))))))))) 

RECURSIVE paramsLoop(_, _)
\* for p.peekTokenIs(token.COMMA) { ... } of parseFunctionParameters
paramsLoop(q, identifiers) ==
    IF ~q.hung /\ peekTokenIs(q, "COMMA")
    THEN paramsLoop(nextToken(nextToken(q)),
                    Append(identifiers, identifierOf(nextToken(nextToken(q)))))
    ELSE R(q, identifiers)

\* the value returned is the slice of identifiers
parseFunctionParameters(q) ==
    IF peekTokenIs(q, "RPAREN") THEN R(nextToken(q), Slice(<<>>))
    ELSE Bind(paramsLoop(nextToken(q), <<identifierOf(nextToken(q))>>),
              LAMBDA q1, identifiers :
         Try(expectPeek(q1, "RPAREN"), NilSlice, LAMBDA q2 :
             R(q2, Slice(identifiers))))

\* parseFunctionLiteral and parseMacroLiteral differ in the node they build
functionLike(q, kind) ==
    Try(expectPeek(q, "LPAREN"), Nil, LAMBDA q1 :
    Bind(parseFunctionParameters(q1), LAMBDA q2, parameters :
    Try(expectPeek(q2, "LBRACE"), Nil, LAMBDA q3 :
    Bind(parseBlockStatement(q3), LAMBDA q4, body :
        R(q4, [kind |-> kind, Token |-> q.curToken,
               Parameters |-> parameters, Body |-> body])))))

parseFunctionLiteral(q) == functionLike(q, "FunctionLiteral")

parseMacroLiteral(q) == functionLike(q, "MacroLiteral")

argsLoop(q, args) ==
    IF ~q.hung /\ peekTokenIs(q, "COMMA")
    THEN Bind(parseExpression(nextToken(nextToken(q)), LOWEST),
              LAMBDA q1, arg : argsLoop(q1, Append(args, arg)))
    ELSE R(q, args)

parseCallArguments(q) ==
    IF peekTokenIs(q, "RPAREN") THEN R(nextToken(q), Slice(<<>>))
    ELSE Bind(parseExpression(nextToken(q), LOWEST), LAMBDA q1, arg :
         Bind(argsLoop(q1, <<arg>>), LAMBDA q2, args :
         Try(expectPeek(q2, "RPAREN"), NilSlice, LAMBDA q3 :
             R(q3, Slice(args)))))

parseCallExpression(q, function) ==
    Bind(parseCallArguments(q), LAMBDA q1, arguments :
        R(q1, [kind |-> "CallExpression", Token |-> q.curToken,
               Function |-> function, Arguments |-> arguments]))

listLoop(q, list) ==
    IF ~q.hung /\ peekTokenIs(q, "COMMA")
    THEN Bind(parseExpression(nextToken(nextToken(q)), LOWEST),
              LAMBDA q1, elem : listLoop(q1, Append(list, elem)))
    ELSE R(q, list)

parseExpressionList(q, end) ==
    IF peekTokenIs(q, end) THEN R(nextToken(q), Slice(<<>>))
    ELSE Bind(parseExpression(nextToken(q), LOWEST), LAMBDA q1, elem :
         Bind(listLoop(q1, <<elem>>), LAMBDA q2, list :
         Try(expectPeek(q2, end), NilSlice, LAMBDA q3 :
             R(q3, Slice(list)))))

parseArrayLiteral(q) ==
    Bind(parseExpressionList(q, "RBRACKET"), LAMBDA q1, elements :
        R(q1, [kind |-> "ArrayLiteral", Token |-> q.curToken,
               Elements |-> elements]))

\* the entries of hash.Pairs, handed from the loop to the end of the function
PairsOf(pairs) == [kind |-> "pairs", entries |-> pairs]

\* the loop of parseHashLiteral: the value is Nil where the code returns nil
\* from inside the loop, the pairs otherwise
hashLoop(q, pairs) ==
    IF q.hung \/ peekTokenIs(q, "RBRACE") THEN R(q, PairsOf(pairs))
    ELSE
    Bind(parseExpression(nextToken(q), LOWEST), LAMBDA q1, key :
    Try(expectPeek(q1, "COLON"), Nil, LAMBDA q2 :
    Bind(parseExpression(nextToken(q2), LOWEST), LAMBDA q3, value :
        IF peekTokenIs(q3, "RBRACE")
        THEN hashLoop(q3, mapPut(pairs, key, value))
        ELSE Try(expectPeek(q3, "COMMA"), Nil, LAMBDA q4 :
                 hashLoop(q4, mapPut(pairs, key, value))))))

parseHashLiteral(q) ==
    Bind(hashLoop(q, <<>>), LAMBDA q1, pairs :
        IF IsNil(pairs) THEN R(q1, Nil)
        ELSE Try(expectPeek(q1, "RBRACE"), Nil, LAMBDA q2 :
                 R(q2, [kind |-> "HashLiteral", Token |-> q.curToken,
                        Pairs |-> pairs.entries])))

parseIndexExpression(q, left) ==
    Bind(parseExpression(nextToken(q), LOWEST), LAMBDA q1, index :
    Try(expectPeek(q1, "RBRACKET"), Nil, LAMBDA q2 :
        R(q2, [kind |-> "IndexExpression", Token |-> q.curToken,
               Left |-> left, Index |-> index])))

\* prefixParseFns[p.curToken.Type]()
prefixParse(q) ==
    CASE q.curToken.Type = "IDENT" -> parseIdentifier(q)
      [] q.curToken.Type = "INT" -> parseIntegerLiteral(q)
      [] q.curToken.Type \in {"BANG", "MINUS"} -> parsePrefixExpression(q)
      [] q.curToken.Type \in {"TRUE", "FALSE"} -> parseBoolean(q)
      [] q.curToken.Type = "LPAREN" -> parseGroupedExpression(q)
      [] q.curToken.Type = "IF" -> parseIfExpression(q)
      [] q.curToken.Type = "FUNCTION" -> parseFunctionLiteral(q)
      [] q.curToken.Type = "STRING" -> parseStringLiteral(q)
      [] q.curToken.Type = "LBRACKET" -> parseArrayLiteral(q)
      [] q.curToken.Type = "LBRACE" -> parseHashLiteral(q)
      [] q.curToken.Type = "MACRO" -> parseMacroLiteral(q)

\* infixParseFns[p.curToken.Type](left), p.curToken being the operator
infixParse(q, left) ==
    CASE q.curToken.Type = "LPAREN" -> parseCallExpression(q, left)
      [] q.curToken.Type = "LBRACKET" -> parseIndexExpression(q, left)
      [] OTHER -> parseInfixExpression(q, left)

\* the for loop of parseExpression
infixLoop(q, precedence, leftExp) ==
    IF ~q.hung /\ ~peekTokenIs(q, "SEMICOLON") /\ precedence < peekPrecedence(q)
    THEN IF q.peekToken.Type \notin infixParseFns THEN R(q, leftExp)
         ELSE Bind(infixParse(nextToken(q), leftExp), LAMBDA q1, exp :
                  infixLoop(q1, precedence, exp))
    ELSE R(q, leftExp)

parseExpression(q, precedence) ==
    IF q.hung THEN R(q, Nil)
    ELSE IF q.curToken.Type \notin prefixParseFns
    THEN R(noPrefixParseFnError(q, q.curToken.Type), Nil)
    ELSE Bind(prefixParse(q), LAMBDA q1, leftExp :
             infixLoop(q1, precedence, leftExp))

\* the semicolon is left for the next statement
skipSemicolonsMutNone(q) == q

RECURSIVE skipSemicolons(_)
\* for p.peekTokenIs(token.SEMICOLON) { p.nextToken() }
skipSemicolons(q) ==
    IF ~q.hung /\ peekTokenIs(q, "SEMICOLON") THEN skipSemicolons(nextToken(q))
    ELSE q

\* returns a *ast.LetStatement: the nil it returns is a nil pointer
parseLetStatement(q) ==
    Try(expectPeek(q, "IDENT"), TypedNil("LetStatement"), LAMBDA q1 :
    Try(expectPeek(q1, "ASSIGN"), TypedNil("LetStatement"), LAMBDA q2 :
    Bind(parseExpression(nextToken(q2), LOWEST), LAMBDA q3, value :
        R(skipSemicolons(q3),
          [kind |-> "LetStatement", Token |-> q.curToken,
           Name |-> identifierOf(q1), Value |-> value]))))

parseReturnStatement(q) ==
    Bind(parseExpression(nextToken(q), LOWEST), LAMBDA q1, value :
        R(skipSemicolons(q1),
          [kind |-> "ReturnStatement", Token |-> q.curToken,
           ReturnValue |-> value]))

parseWhileStatement(q) ==
    Try(expectPeek(q, "LPAREN"), Nil, LAMBDA q1 :
    Bind(parseExpression(nextToken(q1), LOWEST), LAMBDA q2, condition :
    Try(expectPeek(q2, "RPAREN"), Nil, LAMBDA q3 :
    Try(expectPeek(q3, "LBRACE"), Nil, LAMBDA q4 :
    Bind(parseBlockStatement(q4), LAMBDA q5, body :
        R(q5, [kind |-> "WhileStatement", Token |-> q.curToken,
               Condition |-> condition, Body |-> body]))))))

parseExpressionStatement(q) ==
    Bind(parseExpression(q, LOWEST), LAMBDA q1, expression :
        R(IF peekTokenIs(q1, "SEMICOLON") THEN nextToken(q1) ELSE q1,
          [kind |-> "ExpressionStatement", Token |-> q.curToken,
           Expression |-> expression]))

\* returns an ast.Statement: a nil *ast.LetStatement converted to the
\* interface is a non-nil interface value (TypedNil)
parseStatement(q) ==
    IF q.hung THEN R(q, Nil)
    ELSE CASE q.curToken.Type = "LET" -> parseLetStatement(q)
           [] q.curToken.Type = "RETURN" -> parseReturnStatement(q)
           [] q.curToken.Type = "WHILE" -> parseWhileStatement(q)
           [] OTHER -> parseExpressionStatement(q)

(***************************************************************************)
(* Inputs of a parser run                                                  *)
(***************************************************************************)
\* the literal of a token type that has one spelling
FixedLiteral(t) ==
    CASE t = "ASSIGN" -> <<61>>
      [] t = "PLUS" -> <<43>>
      [] t = "MINUS" -> <<45>>
      [] t = "BANG" -> <<33>>
      [] t = "ASTERISK" -> <<42>>
      [] t = "SLASH" -> <<47>>
      [] t = "LT" -> <<60>>
      [] t = "GT" -> <<62>>
      [] t = "EQ" -> <<61, 61>>
      [] t = "NOT_EQ" -> <<33, 61>>
      [] t = "COMMA" -> <<44>>
      [] t = "SEMICOLON" -> <<59>>
      [] t = "COLON" -> <<58>>
      [] t = "LPAREN" -> <<40>>
      [] t = "RPAREN" -> <<41>>
      [] t = "LBRACE" -> <<123>>
      [] t = "RBRACE" -> <<125>>
      [] t = "LBRACKET" -> <<91>>
      [] t = "RBRACKET" -> <<93>>
      [] t = "FUNCTION" -> <<102, 110>>
      [] t = "LET" -> <<108, 101, 116>>
      [] t = "TRUE" -> <<116, 114, 117, 101>>
      [] t = "FALSE" -> <<102, 97, 108, 115, 101>>
      [] t = "IF" -> <<105, 102>>
      [] t = "ELSE" -> <<101, 108, 115, 101>>
      [] t = "RETURN" -> <<114, 101, 116, 117, 114, 110>>
      [] t = "WHILE" -> <<119, 104, 105, 108, 101>>
      [] t = "MACRO" -> <<109, 97, 99, 114, 111>>

K(t) == Tok(t, FixedLiteral(t))

IdA == Tok("IDENT", <<97>>)
IdB == Tok("IDENT", <<98>>)
IdC == Tok("IDENT", <<99>>)
IdD == Tok("IDENT", <<100>>)
Int5 == Tok("INT", <<53>>)
Int10 == Tok("INT", <<49, 48>>)
Int08 == Tok("INT", <<48, 56>>)
StrA == Tok("STRING", <<97>>)

BinaryOps == {"EQ", "NOT_EQ", "LT", "GT", "PLUS", "MINUS", "ASTERISK", "SLASH"}

Operands == {IdA, Int5, Int08}

\* every token sequence of length at most MaxLen over CoreTokens
MaxLen == 3

CoreTokens ==
    {IdA, Int5, K("PLUS"), K("ASTERISK"), K("MINUS"), K("LPAREN"),
     K("RPAREN"), K("LBRACE"), K("RBRACE"), K("SEMICOLON"), K("LET"),
     K("ASSIGN"), K("IF"), K("COMMA"), K("COLON")}

SeqsUpTo(S, n) == UNION {[1..k -> S] : k \in 0..n}

ShortInputs == SeqsUpTo(CoreTokens, MaxLen)

\* a OP1 b OP2 c
TwoOpInputs ==
    {<<a, K(op1), b, K(op2), c>> :
        a \in Operands, b \in Operands, c \in Operands,
        op1 \in BinaryOps, op2 \in BinaryOps}

\* a block opened by if / fn / macro / while, left open or closed
BlockInputs ==
    LET IfHead == <<K("IF"), K("LPAREN"), IdA, K("RPAREN"), K("LBRACE")>>
        FnHead == <<K("FUNCTION"), K("LPAREN"), IdA, K("RPAREN"), K("LBRACE")>>
        MacroHead == <<K("MACRO"), K("LPAREN"), K("RPAREN"), K("LBRACE")>>
        WhileHead == <<K("WHILE"), K("LPAREN"), IdA, K("RPAREN"), K("LBRACE")>>
        Heads == {IfHead, FnHead, MacroHead, WhileHead}
        Bodies == {<<>>, <<IdA>>, <<K("LET"), IdB, K("ASSIGN"), Int5>>,
                   <<K("RETURN"), IdA, K("SEMICOLON")>>}
        Tails == {<<>>, <<K("RBRACE")>>, <<K("RBRACE"), K("SEMICOLON")>>,
                  <<K("RBRACE"), K("ELSE"), K("LBRACE"), IdB>>,
                  <<K("RBRACE"), K("ELSE"), K("LBRACE"), IdB, K("RBRACE")>>}
    IN {h \o b \o t : h \in Heads, b \in Bodies, t \in Tails}

\* x1 OP x2 OP' x3 ... with up to MaxChain operators of one precedence level
MaxChain == 3

SamePrecedence == {{"EQ", "NOT_EQ"}, {"LT", "GT"}, {"PLUS", "MINUS"},
                   {"ASTERISK", "SLASH"}}

ChainOperand(i) == <<IdA, Int5, IdB, IdC>>[((i - 1) % 4) + 1]

\* the chain whose i-th operator is ops[i]
Chain(ops) ==
    [i \in 1..(2 * Len(ops) + 1) |->
        IF i % 2 = 1 THEN ChainOperand((i + 1) \div 2) ELSE K(ops[i \div 2])]

ChainInputs ==
    {Chain(ops) : ops \in UNION {[1..n -> level] :
                                   n \in 1..MaxChain, level \in SamePrecedence}}

\* `let = 1;` repeated k times, k up to MaxLets
MaxLets == 3

Int1 == Tok("INT", <<49>>)

RECURSIVE Repeat(_, _)
Repeat(s, k) == IF k = 0 THEN <<>> ELSE s \o Repeat(s, k - 1)

BrokenLet == <<K("LET"), K("ASSIGN"), Int1, K("SEMICOLON")>>

BrokenLetInputs == {Repeat(BrokenLet, k) : k \in 1..MaxLets}

\* well-formed statements: let IDENT = EXPR, return EXPR, EXPR
Exprs ==
    {<<IdA>>, <<Int5>>, <<StrA>>, <<K("TRUE")>>,
     <<IdA, K("PLUS"), Int5>>,
     <<IdA, K("PLUS"), Int5, K("ASTERISK"), IdB>>,
     <<K("MINUS"), IdA>>, <<K("BANG"), K("FALSE")>>,
     <<K("LPAREN"), IdA, K("PLUS"), Int5, K("RPAREN")>>,
     <<IdA, K("LPAREN"), Int5, K("COMMA"), IdB, K("RPAREN")>>,
     <<IdA, K("LBRACKET"), Int5, K("RBRACKET")>>,
     <<K("LBRACKET"), IdA, K("COMMA"), Int5, K("RBRACKET")>>,
     <<K("LBRACE"), IdA, K("COLON"), Int5, K("RBRACE")>>,
     <<K("FUNCTION"), K("LPAREN"), IdA, K("COMMA"), IdB, K("RPAREN"),
       K("LBRACE"), IdA, K("RBRACE")>>,
     <<K("IF"), K("LPAREN"), IdA, K("RPAREN"), K("LBRACE"), IdA, K("RBRACE"),
       K("ELSE"), K("LBRACE"), IdB, K("RBRACE")>>}

Statements ==
    {<<K("LET"), IdC, K("ASSIGN")>> \o e : e \in Exprs}
    \cup {<<K("RETURN")>> \o e : e \in Exprs}
    \cup Exprs

\* what may follow a statement: the end of input, or the next statement
Followers ==
    {<<>>, <<K("LET"), IdB, K("ASSIGN"), Int5>>, <<K("RETURN"), IdB>>,
     <<K("WHILE"), K("LPAREN"), IdA, K("RPAREN"), K("LBRACE"), K("RBRACE")>>}

WithSemicolonInputs ==
    {st \o <<K("SEMICOLON")>> \o f : st \in Statements, f \in Followers}

WithoutSemicolonInputs == {st \o f : st \in Statements, f \in Followers}

\* hash literals, with and without a comma before the closing brace
HashBodies ==
    {<<IdA, K("COLON"), Int5>>,
     <<IdA, K("COLON"), Int5, K("COMMA"), StrA, K("COLON"), IdB>>}

TrailingCommaInputs ==
    {<<K("LBRACE")>> \o b \o <<K("COMMA"), K("RBRACE")>> : b \in HashBodies}

HashInputs ==
    {<<K("LBRACE")>> \o b \o <<K("RBRACE")>> : b \in HashBodies}
    \cup {<<K("LBRACE"), K("RBRACE")>>}

\* OP a BIN b, OP a(b), OP a[b] and a BIN b[c], OP one of - and !
PrefixOps == {"MINUS", "BANG"}

PrefixBinInputs ==
    {<<K(op), a, K(bin), b>> :
        op \in PrefixOps, a \in Operands, bin \in BinaryOps, b \in Operands}

PrefixCallInputs ==
    {<<K(op), a, K("LPAREN"), b, K("RPAREN")>> :
        op \in PrefixOps, a \in Operands, b \in Operands}

PrefixIndexInputs ==
    {<<K(op), a, K("LBRACKET"), b, K("RBRACKET")>> :
        op \in PrefixOps, a \in Operands, b \in Operands}

BinIndexInputs ==
    {<<a, K(bin), b, K("LBRACKET"), c, K("RBRACKET")>> :
        a \in Operands, bin \in BinaryOps, b \in Operands, c \in Operands}

PrefixInputs ==
    PrefixBinInputs \cup PrefixCallInputs \cup PrefixIndexInputs
    \cup BinIndexInputs

\* fn ( X ) { }, fn ( a , X ) { } and the same with macro, X not an IDENT;
\* and the input ending where a parameter should stand
NotIdent == {Int5, K("LET"), K("TRUE"), K("COMMA")}

BadParamInputs ==
    {<<K(f), K("LPAREN")>> \o pre \o <<x, K("RPAREN"), K("LBRACE"),
                                        K("RBRACE")>> :
        f \in {"FUNCTION", "MACRO"}, pre \in {<<>>, <<IdA, K("COMMA")>>},
        x \in NotIdent}
    \cup {<<K(f), K("LPAREN")>> \o pre :
             f \in {"FUNCTION", "MACRO"}, pre \in {<<>>, <<IdA, K("COMMA")>>}}

\* one INT token: a run of up to MaxDigits digits, leading zeros included
MaxDigits == 3

Digits == {48, 49, 56}

IntInputs ==
    {<<Tok("INT", s)>> : s \in UNION {[1..n -> Digits] : n \in 1..MaxDigits}}

(***************************************************************************)
(* The tokenizer (junk/lexer/lexer.go).  A Lexer is the record             *)
(* [input, postion, readPosition, ch]; positions count from 0 as in the    *)
(* code, so input[i] of the code is input[i + 1] here.  A method that      *)
(* returns a value returns the record [l |-> the lexer afterwards, ...].   *)
(***************************************************************************)
LexerIdle == [input |-> <<>>, postion |-> 0, readPosition |-> 0, ch |-> 0]

readChar(l) ==
    [l EXCEPT !.ch = IF l.readPosition >= Len(l.input)
                     THEN 0
                     ELSE l.input[l.readPosition + 1],
              !.postion = l.readPosition,
              !.readPosition = l.readPosition + 1]

LexerNew(input) ==
    readChar([input |-> input, postion |-> 0, readPosition |-> 0, ch |-> 0])

isLetter(ch) ==
    \/ 97 <= ch /\ ch <= 122
    \/ 65 <= ch /\ ch <= 90
    \/ ch = 95
    \/ ch = 33
    \/ ch = 63

isDigit(ch) == 48 <= ch /\ ch <= 57

RECURSIVE eatWhitespace(_)
eatWhitespace(l) ==
    IF l.ch = 32 \/ l.ch = 9 \/ l.ch = 10 \/ l.ch = 13
    THEN eatWhitespace(readChar(l))
    ELSE l

RECURSIVE skipDigits(_)
skipDigits(l) == IF isDigit(l.ch) THEN skipDigits(readChar(l)) ELSE l

\* the slice starts one byte late
readNumberMutOffByOne(l) ==
    [l |-> skipDigits(l),
     s |-> SubSeq(l.input, l.postion + 2, skipDigits(l).postion)]

\* l.input[position:l.postion] once the run of digits is passed
readNumber(l) ==
    [l |-> skipDigits(l),
     s |-> SubSeq(l.input, l.postion + 1, skipDigits(l).postion)]

RECURSIVE skipLetters(_)
skipLetters(l) == IF isLetter(l.ch) THEN skipLetters(readChar(l)) ELSE l

readIdentifier(l) ==
    [l |-> skipLetters(l),
     s |-> SubSeq(l.input, l.postion + 1, skipLetters(l).postion)]

newToken(tokenType, ch) == Tok(tokenType, <<ch>>)

Keywords ==
    {"FUNCTION", "LET", "TRUE", "FALSE", "IF", "ELSE", "RETURN", "WHILE",
     "MACRO"}

\* token.LookupIdent: the keyword spelled ident, or IDENT
LookupIdent(ident) ==
    IF \E k \in Keywords : FixedLiteral(k) = ident
    THEN CHOOSE k \in Keywords : FixedLiteral(k) = ident
    ELSE "IDENT"

\* the switch of NextToken on l.ch, for the cases that end in l.readChar()
charToken(ch) ==
    CASE ch = 61 -> newToken("ASSIGN", ch)
      [] ch = 59 -> newToken("SEMICOLON", ch)
      [] ch = 40 -> newToken("LPAREN", ch)
      [] ch = 41 -> newToken("RPAREN", ch)
      [] ch = 44 -> newToken("COMMA", ch)
      [] ch = 43 -> newToken("PLUS", ch)
      [] ch = 123 -> newToken("LBRACE", ch)
      [] ch = 125 -> newToken("RBRACE", ch)
      [] ch = 0 -> Tok("EOF", <<>>)
      [] OTHER -> newToken("ILLEGAL", ch)

\* the cases that end in l.readChar() return without it
tokenAtMutNoReadChar(l) ==
    IF l.ch \in {61, 59, 40, 41, 44, 43, 123, 125, 0}
    THEN [l |-> l, tok |-> charToken(l.ch)]
    ELSE IF isLetter(l.ch)
    THEN [l |-> readIdentifier(l).l,
          tok |-> Tok(LookupIdent(readIdentifier(l).s), readIdentifier(l).s)]
    ELSE IF isDigit(l.ch)
    THEN [l |-> readNumber(l).l, tok |-> Tok("INT", readNumber(l).s)]
    ELSE [l |-> l, tok |-> charToken(l.ch)]

\* NextToken once the white space is eaten
tokenAt(l) ==
    IF l.ch \in {61, 59, 40, 41, 44, 43, 123, 125, 0}
    THEN [l |-> readChar(l), tok |-> charToken(l.ch)]
    ELSE IF isLetter(l.ch)
    THEN [l |-> readIdentifier(l).l,
          tok |-> Tok(LookupIdent(readIdentifier(l).s), readIdentifier(l).s)]
    ELSE IF isDigit(l.ch)
    THEN [l |-> readNumber(l).l, tok |-> Tok("INT", readNumber(l).s)]
    ELSE [l |-> readChar(l), tok |-> charToken(l.ch)]

NextToken(l) == tokenAt(eatWhitespace(l))

(***************************************************************************)
(* Inputs of a tokenizer run                                               *)
(***************************************************************************)
\* NUL, space, newline, the operator and punctuation bytes, a letter, digits
AllBytes ==
    {0, 32, 10, 9, 13, 61, 33, 43, 45, 42, 47, 60, 62, 44, 59, 58, 40, 41,
     123, 125, 91, 93, 97, 102, 110, 63, 95, 49, 48, 34}

CoreBytes == {0, 32, 61, 33, 43, 45, 97, 49}

MaxBytes == 3

MaxCalls == 5

ByteInputs ==
    SeqsUpTo(CoreBytes, MaxBytes) \cup SeqsUpTo(AllBytes, 2)
    \cup {<<102, 110>>, <<32, 102, 110, 40, 97, 41>>, <<108, 101, 116, 32, 97>>}

(***************************************************************************)
(* A parser run: New, then ParseProgram (part_001:341-354)                 *)
(***************************************************************************)
StartWith(S) == \E toks \in S : p = New(toks)

\* no tokenizer run, no REPL session, no quote call
LexerIdles ==
    src = <<>> /\ lx = LexerIdle /\ tok = ZeroTok /\ ntok = 0 /\ lits = <<>>

ReplIdles == lines = <<>> /\ out = <<>> /\ calls = <<>> /\ env = 0

QuoteIdles == qnode = Nil /\ quoted = Nil

Init ==
    /\ \/ StartWith(ShortInputs)
       \/ StartWith(TwoOpInputs)
       \/ StartWith(BlockInputs)
       \/ StartWith(ChainInputs)
       \/ StartWith(BrokenLetInputs)
       \/ StartWith(WithSemicolonInputs)
       \/ StartWith(WithoutSemicolonInputs)
       \/ StartWith(TrailingCommaInputs)
       \/ StartWith(HashInputs)
       \/ StartWith(IntInputs)
       \/ StartWith(PrefixInputs)
       \/ StartWith(BadParamInputs)
    /\ program = <<>>
    /\ pc = "loop"
    /\ LexerIdles
    /\ ReplIdles
    /\ QuoteIdles
    /\ visited = <<>>

\* stmt := p.parseStatement(); if stmt != nil { append }
ParseStatement ==
    /\ pc = "loop"
    /\ ~curTokenIs(p, "EOF")
    /\ ~parseStatement(p).p.hung
    /\ p' = parseStatement(p).p
    /\ program' = IF ~IsNil(parseStatement(p).node)
                  THEN Append(program, parseStatement(p).node)
                  ELSE program
    /\ pc' = "advance"
    /\ UNCHANGED notParser

\* parseStatement does not return: control stays in the loop of a
\* parseBlockStatement (part_001:140-146), at the head of an iteration
ParseStatementStays ==
    /\ pc = "loop"
    /\ ~curTokenIs(p, "EOF")
    /\ parseStatement(p).p.hung
    /\ p' = [parseStatement(p).p EXCEPT !.hung = FALSE]
    /\ pc' = "blockLoop"
    /\ UNCHANGED <<program, notParser>>

\* p.nextToken() at the end of an iteration of ParseProgram
Advance ==
    /\ pc = "advance"
    /\ p' = nextToken(p)
    /\ pc' = "loop"
    /\ UNCHANGED <<program, notParser>>

\* the loop of ParseProgram ends: return program
ReturnProgram ==
    /\ pc = "loop"
    /\ curTokenIs(p, "EOF")
    /\ pc' = "done"
    /\ UNCHANGED <<p, program, notParser>>

\* one iteration of the loop of parseBlockStatement, first half:
\* stmt := p.parseStatement() (the block's statement list is not kept)
BlockLoopStatement ==
    /\ pc = "blockLoop"
    /\ ~curTokenIs(p, "RBRACE")
    /\ p' = parseStatement(p).p
    /\ pc' = "blockAdvance"
    /\ UNCHANGED <<program, notParser>>

\* second half: p.nextToken()
BlockLoopAdvance ==
    /\ pc = "blockAdvance"
    /\ p' = nextToken(p)
    /\ pc' = "blockLoop"
    /\ UNCHANGED <<program, notParser>>

Next ==
    \/ ParseStatement
    \/ ParseStatementStays
    \/ Advance
    \/ ReturnProgram
    \/ BlockLoopStatement
    \/ BlockLoopAdvance

Spec == Init /\ [][Next]_vars

(***************************************************************************)
(* A tokenizer run: New(input), then NextToken calls                       *)
(***************************************************************************)
LexInit ==
    /\ src \in ByteInputs
    /\ lx = LexerNew(src)
    /\ tok = ZeroTok
    /\ ntok = 0
    /\ lits = <<>>
    /\ p = New(<<>>)
    /\ program = <<>>
    /\ pc = "idle"
    /\ ReplIdles
    /\ QuoteIdles
    /\ visited = <<>>

\* tok = l.NextToken()
NextTokenCall ==
    /\ ntok < MaxCalls
    /\ lx' = NextToken(lx).l
    /\ tok' = NextToken(lx).tok
    /\ ntok' = ntok + 1
    /\ lits' = lits \o NextToken(lx).tok.Literal
    /\ UNCHANGED <<src, parserVars, replVars, quoteVars, visited>>

LexNext == NextTokenCall

LexSpec == LexInit /\ [][LexNext]_vars

\* a sequential program goes on to its next step as long as it has one
FairSpec == Spec /\ WF_vars(Next)

(***************************************************************************)
(* A range over the Pairs of a parsed HashLiteral.  Pairs is a Go map      *)
(* (part_001:268): a range visits each entry once, in an order that is not *)
(* specified and may differ from one range to the next.                    *)
(***************************************************************************)
\* the program is one expression statement holding a HashLiteral
IsHashProgram ==
    /\ Len(program) = 1
    /\ program[1].kind = "ExpressionStatement"
    /\ program[1].Expression.kind = "HashLiteral"

\* for key, value := range hash.Pairs
RangePairs ==
    /\ pc = "done"
    /\ IsHashProgram
    /\ \E f \in Permutations(1..Len(program[1].Expression.Pairs)) :
          visited' = [i \in 1..Len(program[1].Expression.Pairs) |->
                         program[1].Expression.Pairs[f[i]]]
    /\ pc' = "ranged"
    /\ UNCHANGED <<p, program, lexVars, replVars, quoteVars>>

HashNext ==
    \/ RangePairs
    \/ Next

HashSpec == Init /\ [][HashNext]_vars

(***************************************************************************)
(* The REPL (junk/repl/repl.go): Start reads `in` line by line; each line  *)
(* goes through lexer.New, parser.New and ParseProgram (the steps of Next) *)
(* and then to printParserErrors or to evaluator.Eval.  The lines of the   *)
(* model hold no zero byte, so the tokens the parser pulls from the Lexer  *)
(* are those before the first EOF, then EOF on every call.                 *)
(***************************************************************************)
RECURSIVE Tokens(_)
\* the tokens successive NextToken calls return before the first EOF
Tokens(l) ==
    CHOOSE toks \in {IF r.tok.Type = "EOF" THEN <<>>
                     ELSE <<r.tok>> \o Tokens(r.l) : r \in {NextToken(l)}} :
        TRUE

\* the bytes of a line of the session
Line(name) ==
    CASE name = "a" -> <<97>>
      [] name = "a + 1" -> <<97, 32, 43, 32, 49>>
      [] name = "let a = 1;" -> <<108, 101, 116, 32, 97, 32, 61, 32, 49, 59>>
      [] name = "let = 1;" -> <<108, 101, 116, 32, 61, 32, 49, 59>>
      [] name = "fn(a){a}(1)" ->
            <<102, 110, 40, 97, 41, 123, 97, 125, 40, 49, 41>>
      [] name = "if (a) {" -> <<105, 102, 32, 40, 97, 41, 32, 123>>
      [] name = "a - 1" -> <<97, 32, 45, 32, 49>>
      [] name = "1 +" -> <<49, 32, 43>>
      [] name = "(a" -> <<40, 97>>
      [] name = "" -> <<>>

ReplLines ==
    {Line(n) : n \in {"a", "a + 1", "let a = 1;", "let = 1;", "fn(a){a}(1)",
                      "if (a) {", "a - 1", "1 +", "(a", ""}}

\* a session has up to MaxSessionLines lines
MaxSessionLines == 2

ReplSessions == UNION {[1..n -> ReplLines] : n \in 0..MaxSessionLines}

\* what printParserErrors writes, one element per io.WriteString
ErrorLines(errors) == [i \in 1..Len(errors) |-> <<"\t", errors[i], "\n">>]

printParserErrors(w, errors) ==
    w \o <<"RACCOON_JUNK", "Woops! We ran into some junk here!\n",
           " parser errors:\n">> \o ErrorLines(errors)

\* what evaluator.Eval may return: nil, or an object
EvalResults == {Nil, [kind |-> "object"]}

ReplInit ==
    /\ lines \in ReplSessions
    /\ out = <<>>
    /\ calls = <<>>
    /\ env = 1
    /\ p = New(<<>>)
    /\ program = <<>>
    /\ pc = "prompt"
    /\ LexerIdles
    /\ QuoteIdles
    /\ visited = <<>>

\* scanner.Scan() gives a line: lexer.New(line), parser.New(l)
ReplScan ==
    /\ pc = "prompt"
    /\ lines # <<>>
    /\ lines' = Tail(lines)
    /\ \E toks \in {Tokens(LexerNew(Head(lines)))} : p' = New(toks)
    /\ program' = <<>>
    /\ calls' = <<>>
    /\ pc' = "loop"
    /\ UNCHANGED <<out, env, lexVars, quoteVars, visited>>

\* scanner.Scan() gives nothing: return
ReplReturn ==
    /\ pc = "prompt"
    /\ lines = <<>>
    /\ pc' = "exit"
    /\ UNCHANGED <<p, program, replVars, lexVars, quoteVars, visited>>

\* len(p.Errors()) != 0: printParserErrors, continue
ReplPrintErrors ==
    /\ pc = "done"
    /\ Len(Errors(p)) # 0
    /\ out' = printParserErrors(out, Errors(p))
    /\ pc' = "prompt"
    /\ UNCHANGED <<p, program, lines, calls, env, lexVars, quoteVars, visited>>

\* evaluated := evaluator.Eval(program, env), written if it is not nil
ReplEval ==
    /\ pc = "done"
    /\ Len(Errors(p)) = 0
    /\ calls' = Append(calls, [fn |-> "Eval", program |-> program,
                               env |-> env])
    /\ \E evaluated \in EvalResults :
          out' = IF ~IsNil(evaluated)
                 THEN out \o <<"evaluated.Inspect()", "\n">>
                 ELSE out
    /\ pc' = "prompt"
    /\ UNCHANGED <<p, program, lines, env, lexVars, quoteVars, visited>>

ReplNext ==
    \/ ReplScan
    \/ ReplReturn
    \/ ReplPrintErrors
    \/ ReplEval
    \/ Next

ReplSpec == ReplInit /\ [][ReplNext]_vars

\* Start runs on as long as it has a step to take
ReplFairSpec == ReplSpec /\ WF_vars(ReplNext)

(***************************************************************************)
(* quote (junk/evaluator/quote_unquote.go), called with a parsed node      *)
(***************************************************************************)
quote(node) == [kind |-> "Quote", Node |-> node]

IdUnquote == Tok("IDENT", <<117, 110, 113, 117, 111, 116, 101>>)

\* unquote(e)
Unquote(e) == <<IdUnquote, K("LPAREN")>> \o e \o <<K("RPAREN")>>

\* expressions without unquote, and with unquote(e) at the top, as an
\* operand, as an array element and as a call argument
QuoteTokenInputs ==
    Exprs
    \cup {Unquote(e) : e \in Exprs}
    \cup {Unquote(e) \o <<K("PLUS"), IdA>> : e \in Exprs}
    \cup {<<K("LBRACKET"), IdB, K("COMMA")>> \o Unquote(e)
              \o <<K("RBRACKET")>> : e \in Exprs}
    \cup {<<IdB, K("LPAREN")>> \o Unquote(e) \o <<K("RPAREN")>> : e \in Exprs}

QuoteInputs == {parseExpression(New(toks), LOWEST).node : toks \in QuoteTokenInputs}

QuoteInit ==
    /\ qnode \in QuoteInputs
    /\ quoted = Nil
    /\ p = New(<<>>)
    /\ program = <<>>
    /\ pc = "idle"
    /\ LexerIdles
    /\ ReplIdles
    /\ visited = <<>>

\* quoted = quote(qnode)
QuoteCall ==
    /\ IsNil(quoted)
    /\ quoted' = quote(qnode)
    /\ UNCHANGED <<qnode, parserVars, lexVars, replVars, visited>>

QuoteNext == QuoteCall

QuoteSpec == QuoteInit /\ [][QuoteNext]_vars

(***************************************************************************)
(* Properties of the parser                                                *)
(***************************************************************************)
Toks == p.toks

\* ParseProgram has parsed its first statement, and it was appended
FirstStatementParsed == pc = "advance" /\ Len(program) = 1

\* the node the parser builds for an operand that stands alone
Leaf(t) == prefixParse(New(<<t>>)).node

InfixOf(op, left, right) ==
    [kind |-> "InfixExpression", Token |-> op, Operator |-> op.Literal,
     Left |-> left, Right |-> right]

ExpressionStatementOf(first, e) ==
    [kind |-> "ExpressionStatement", Token |-> first, Expression |-> e]

\* the ladder of the specification: EQUALS < LESSGREATER < SUM < PRODUCT
Rank(t) ==
    CASE t \in {"EQ", "NOT_EQ"} -> 1
      [] t \in {"LT", "GT"} -> 2
      [] t \in {"PLUS", "MINUS"} -> 3
      [] t \in {"ASTERISK", "SLASH"} -> 4

TwoOpExpected(t) ==
    IF Rank(t[4].Type) > Rank(t[2].Type)
    THEN InfixOf(t[2], Leaf(t[1]), InfixOf(t[4], Leaf(t[3]), Leaf(t[5])))
    ELSE InfixOf(t[4], InfixOf(t[2], Leaf(t[1]), Leaf(t[3])), Leaf(t[5]))

\* C1: for every input a OP1 b OP2 c (a, b, c identifiers or integer
\* literals, OP1 and OP2 binary operators) parseExpression(LOWEST) yields
\* Infix(OP1, a, Infix(OP2, b, c)) if OP2 stands higher on the ladder than
\* OP1, and Infix(OP2, Infix(OP1, a, b), c) otherwise.
C1_PrecedenceLadder ==
    (pc \in {"advance", "done"} /\ Toks \in TwoOpInputs)
        => program = <<ExpressionStatementOf(Toks[1], TwoOpExpected(Toks))>>

\* a + b * c style input parsed to the end, the second operator binding tighter
C1_Witness ==
    /\ pc = "done"
    /\ Toks \in TwoOpInputs
    /\ Rank(Toks[4].Type) > Rank(Toks[2].Type)
    /\ Len(program) = 1
    /\ program[1].Expression.Right.kind = "InfixExpression"

RECURSIVE LeftNested(_, _)
\* (((x1 OP x2) OP' x3) ... xn) for the first n operators of the chain t
LeftNested(t, n) ==
    IF n = 0 THEN Leaf(t[1])
    ELSE InfixOf(t[2 * n], LeftNested(t, n - 1), Leaf(t[2 * n + 1]))

\* C2: a chain x1 OP x2 OP' x3 ... xn whose operators all have the same
\* precedence parses to the left-nested tree (((x1 OP x2) OP' x3) ... xn).
C2_LeftAssociative ==
    (pc \in {"advance", "done"} /\ Toks \in ChainInputs)
        => program = <<ExpressionStatementOf(Toks[1],
                           LeftNested(Toks, (Len(Toks) - 1) \div 2))>>

\* a chain of three operators parsed to the end
C2_Witness ==
    /\ pc = "done"
    /\ Toks \in ChainInputs
    /\ Len(Toks) = 7
    /\ Len(program) = 1
    /\ program[1].Expression.Left.Left.kind = "InfixExpression"

\* C3: ParseProgram terminates for every finite input, also when a block
\* opened with { is never closed before the end of input.
C3_ParseProgramTerminates == <>(pc = "done")

\* C4: a statement parser's nil is not appended: every element of
\* Program.Statements is a non-nil statement node.
C4_NoNilStatement ==
    \A i \in 1..Len(program) : program[i].kind \notin {"nil", "nilptr"}

IsPrefix(s, t) == Len(s) <= Len(t) /\ SubSeq(t, 1, Len(s)) = s

\* C5: the error list only grows, no message is removed or reordered, and
\* ParseProgram gets to the end of `let = 1;` repeated k times with at least
\* k messages.
C5_ErrorsAccumulate ==
    [][/\ IsPrefix(p.errors, p'.errors)
       /\ (pc' = "done" /\ p'.toks \in BrokenLetInputs)
              => Len(p'.errors) >= Len(p'.toks) \div 4]_vars

\* `let = 1; let = 1;` parsed to the end with its messages
C5_Witness ==
    /\ pc = "done"
    /\ Toks = Repeat(BrokenLet, 2)
    /\ Len(p.errors) >= 2

RemoveAt(t, i) == SubSeq(t, 1, i - 1) \o SubSeq(t, i + 1, Len(t))

\* C6: the SEMICOLON that ends a let, return or expression statement is
\* optional: S; and S (before the end of input or the next statement) give
\* the same statement node and no error, and the statement parser returns
\* with curToken on the semicolon when there is one.
C6_SemicolonOptional ==
    (FirstStatementParsed /\ Toks \in WithSemicolonInputs)
        => /\ curTokenIs(p, "SEMICOLON")
           /\ p.errors = <<>>
           /\ RemoveAt(Toks, p.pulls - 1) \in WithoutSemicolonInputs
           /\ parseStatement(New(RemoveAt(Toks, p.pulls - 1))).node = program[1]
           /\ parseStatement(New(RemoveAt(Toks, p.pulls - 1))).p.errors = <<>>

\* `let c = EXPR;` followed by another statement, its first statement parsed
C6_Witness ==
    /\ FirstStatementParsed
    /\ Toks \in WithSemicolonInputs
    /\ Len(Toks) > p.pulls
    /\ program[1].kind = "LetStatement"
    /\ curTokenIs(p, "SEMICOLON")

\* C7: a hash literal whose last pair is followed by `,` before `}` is
\* rejected: parseHashLiteral records an error and returns nil.
C7_TrailingCommaRejected ==
    (pc \in {"advance", "done"} /\ Toks \in TrailingCommaInputs)
        => /\ p.errors # <<>>
           /\ program[1].Expression.kind = "nil"

(***************************************************************************)
(* Properties of the tokenizer                                             *)
(***************************************************************************)
\* this step is a NextToken call with the cursor on the input byte c
CallAt(c) ==
    /\ ntok' = ntok + 1
    /\ lx.postion < Len(src)
    /\ lx.ch = c

\* the byte after the cursor is c
NextByteIs(c) ==
    lx.readPosition < Len(src) /\ src[lx.readPosition + 1] = c

Consumed == lx'.postion - lx.postion

\* C8: with the cursor at = (at !) and = as the next byte, NextToken returns
\* EQ "==" (NOT_EQ "!=") and consumes both bytes; with another next byte it
\* returns ASSIGN (BANG) and consumes one byte.
C8_TwoCharacterOperators ==
    [][/\ (CallAt(61) /\ NextByteIs(61)) => (tok' = K("EQ") /\ Consumed = 2)
       /\ (CallAt(61) /\ ~NextByteIs(61))
              => (tok' = K("ASSIGN") /\ Consumed = 1)
       /\ (CallAt(33) /\ NextByteIs(61))
              => (tok' = K("NOT_EQ") /\ Consumed = 2)
       /\ (CallAt(33) /\ ~NextByteIs(61))
              => (tok' = K("BANG") /\ Consumed = 1)]_vars

\* C9: once NextToken has returned EOF, every later call returns EOF with the
\* empty literal; and EOF is returned only with the cursor past the last
\* byte of the input (the cursor is one further after the call).
C9_EOFAbsorbing ==
    [][(ntok' = ntok + 1)
          => /\ tok.Type = "EOF" => tok' = EOFTok
             /\ tok'.Type = "EOF" => lx'.postion > Len(src)]_vars

\* the token type the specification assigns to a punctuation byte
Punctuation ==
    {"PLUS", "MINUS", "ASTERISK", "SLASH", "LT", "GT", "COMMA", "SEMICOLON",
     "COLON", "LPAREN", "RPAREN", "LBRACE", "RBRACE", "LBRACKET", "RBRACKET"}

\* C10: for each byte c of + - * / < > , ; : ( ) { } [ ] a NextToken call
\* with the cursor at c returns the token of the type assigned to c, with
\* literal c, and never ILLEGAL.
C10_PunctuationOneToOne ==
    [][\A t \in Punctuation :
          CallAt(FixedLiteral(t)[1]) => tok' = K(t)]_vars

RECURSIVE StripWhitespace(_)
\* s without its space, tab, carriage-return and newline bytes
StripWhitespace(s) ==
    IF s = <<>> THEN <<>>
    ELSE IF Head(s) \in {32, 9, 13, 10} THEN StripWhitespace(Tail(s))
    ELSE <<Head(s)>> \o StripWhitespace(Tail(s))

NoZeroByte(s) == \A i \in 1..Len(s) : s[i] # 0

\* the bytes of the input the cursor has passed
Passed ==
    SubSeq(src, 1, IF lx.postion < Len(src) THEN lx.postion ELSE Len(src))

RECURSIVE DecimalValue(_, _)
\* the base-10 value of the digit run s, from accumulator acc
DecimalValue(s, acc) ==
    IF s = <<>> THEN acc
    ELSE DecimalValue(Tail(s), acc * 10 + (Head(s) - 48))

\* C12: an INT token (a run of digits, leading zeros included) parses to an
\* IntegerLiteral whose Value is the base-10 value of the run, and no parser
\* error is recorded.
C12_IntegerLiteralIsDecimal ==
    (pc \in {"advance", "done"} /\ Toks \in IntInputs)
        => /\ p.errors = <<>>
           /\ program =
                  <<ExpressionStatementOf(Toks[1],
                        [kind |-> "IntegerLiteral", Token |-> Toks[1],
                         Value |-> DecimalValue(Toks[1].Literal, 0)])>>

(***************************************************************************)
(* Properties of the REPL                                                  *)
(***************************************************************************)
EvalCalls(cs) == Cardinality({i \in 1..Len(cs) : cs[i].fn = "Eval"})

\* w is: the banner, then each error after a tab
BannerAndErrors(w, errors) ==
    /\ Len(w) = 3 + Len(errors)
    /\ w[1] = "RACCOON_JUNK"
    /\ \A i \in 1..Len(errors) : w[3 + i][1] = "\t" /\ w[3 + i][2] = errors[i]

\* Start is through with the line it read
LineDone == pc = "done" /\ pc' = "prompt"

\* C13: for every line, Eval is called on the line's program exactly when
\* the parser's error list is empty; when it is not, the banner and each
\* error after a tab are written and Eval is not called; either way Start
\* goes on to read the next line; and every Eval call gets the environment
\* created before the first line.
C13_EvalIffNoErrors ==
    /\ [][LineDone =>
            IF Errors(p) = <<>>
            THEN /\ EvalCalls(calls') = 1
                 /\ calls'[Len(calls')].program = program
            ELSE /\ EvalCalls(calls') = 0
                 /\ IsPrefix(out, out')
                 /\ BannerAndErrors(SubSeq(out', Len(out) + 1, Len(out')),
                                    Errors(p))]_vars
    /\ [][env' = env /\ \A i \in 1..Len(calls') : calls'[i].env = 1]_vars
    /\ (pc = "loop") ~> (pc = "prompt")

\* C14: whenever a program reaches Eval, DefineMacros and then ExpandMacros
\* were called on it just before.
C14_MacrosBeforeEval ==
    [][\A i \in 1..Len(calls') :
          calls'[i].fn = "Eval"
              => /\ i >= 3
                 /\ calls'[i - 2].fn = "DefineMacros"
                 /\ calls'[i - 1].fn = "ExpandMacros"]_vars

(***************************************************************************)
(* Properties of quote                                                     *)
(***************************************************************************)
\* the nodes directly below the node n
Children(n) ==
    CASE n.kind \in {"PrefixExpression"} -> {n.Right}
      [] n.kind = "InfixExpression" -> {n.Left, n.Right}
      [] n.kind = "IndexExpression" -> {n.Left, n.Index}
      [] n.kind = "IfExpression" -> {n.Condition, n.Consequence, n.Alternative}
      [] n.kind = "BlockStatement" ->
            {n.Statements[i] : i \in 1..Len(n.Statements)}
      [] n.kind = "ExpressionStatement" -> {n.Expression}
      [] n.kind = "LetStatement" -> {n.Name, n.Value}
      [] n.kind = "ReturnStatement" -> {n.ReturnValue}
      [] n.kind = "WhileStatement" -> {n.Condition, n.Body}
      [] n.kind \in {"FunctionLiteral", "MacroLiteral"} ->
            {n.Body} \cup {n.Parameters.elems[i] :
                              i \in 1..Len(n.Parameters.elems)}
      [] n.kind = "CallExpression" ->
            {n.Function} \cup {n.Arguments.elems[i] :
                                  i \in 1..Len(n.Arguments.elems)}
      [] n.kind = "ArrayLiteral" ->
            {n.Elements.elems[i] : i \in 1..Len(n.Elements.elems)}
      [] n.kind = "HashLiteral" ->
            {n.Pairs[i].key : i \in 1..Len(n.Pairs)}
            \cup {n.Pairs[i].value : i \in 1..Len(n.Pairs)}
      [] OTHER -> {}

\* a call unquote(X): function identifier unquote, exactly one argument
IsUnquoteCall(n) ==
    /\ n.kind = "CallExpression"
    /\ n.Function.kind = "Identifier"
    /\ n.Function.Value = IdUnquote.Literal
    /\ Len(n.Arguments.elems) = 1

RECURSIVE HasUnquoteCall(_)
HasUnquoteCall(n) ==
    IsUnquoteCall(n) \/ \E c \in Children(n) : HasUnquoteCall(c)

\* C15: quote(node) returns a Quote whose node holds no one-argument
\* unquote call any more (each is replaced by the AST form of the value of
\* its argument), and is the argument itself where there was none.
C15_QuoteHandlesUnquote ==
    ~IsNil(quoted)
        => /\ quoted.kind = "Quote"
           /\ ~HasUnquoteCall(quoted.Node)
           /\ ~HasUnquoteCall(qnode) => quoted.Node = qnode

(***************************************************************************)
(* Properties of the parser's token window                                 *)
(***************************************************************************)
\* curToken is the i-th token of the stream and peekToken the (i+1)-th,
\* counted from 0
WindowAt(i) ==
    /\ i >= 0
    /\ p.curToken = StreamToken(Toks, i)
    /\ p.peekToken = StreamToken(Toks, i + 1)

\* the index of the window: two tokens are pulled ahead of it
WindowIndex == p.pulls - 2

\* C16: curToken and peekToken are the i-th and (i+1)-th token the lexer
\* returned; i is 0 right after New, never decreases, goes up by exactly 1
\* with each nextToken, and curToken is EOF when ParseProgram returns.
C16_TwoTokenWindow ==
    /\ WindowIndex = 0
    /\ [](WindowAt(WindowIndex) /\ (pc = "done" => curTokenIs(p, "EOF")))
    /\ [][/\ p'.pulls >= p.pulls
          /\ (pc \in {"advance", "blockAdvance"} /\ p.pulls < MaxPulls)
                 => p'.pulls = p.pulls + 1]_vars

\* a + 5 parsed to the end: the window has moved from 0 to 3
C16_Witness ==
    /\ pc = "done"
    /\ Toks = <<IdA, K("PLUS"), Int5>>
    /\ WindowIndex = 3
    /\ WindowAt(3)

(***************************************************************************)
(* Properties of prefix, call and index expressions                        *)
(***************************************************************************)
PrefixOf(op, right) ==
    [kind |-> "PrefixExpression", Token |-> op, Operator |-> op.Literal,
     Right |-> right]

CallOf(paren, function, args) ==
    [kind |-> "CallExpression", Token |-> paren, Function |-> function,
     Arguments |-> Slice(args)]

IndexOf(bracket, left, index) ==
    [kind |-> "IndexExpression", Token |-> bracket, Left |-> left,
     Index |-> index]

PrefixExpected(t) ==
    CASE t \in PrefixBinInputs ->
            InfixOf(t[3], PrefixOf(t[1], Leaf(t[2])), Leaf(t[4]))
      [] t \in PrefixCallInputs ->
            PrefixOf(t[1], CallOf(t[3], Leaf(t[2]), <<Leaf(t[4])>>))
      [] t \in PrefixIndexInputs ->
            PrefixOf(t[1], IndexOf(t[3], Leaf(t[2]), Leaf(t[4])))
      [] t \in BinIndexInputs ->
            InfixOf(t[2], Leaf(t[1]), IndexOf(t[4], Leaf(t[3]), Leaf(t[5])))

\* C17: OP a BIN b parses as Infix(BIN, Prefix(OP, a), b) for OP one of
\* - and ! and every binary operator BIN; OP a(b) as Prefix(OP, Call(a, [b]));
\* OP a[b] as Prefix(OP, Index(a, b)); a BIN b[c] as Infix(BIN, a, Index(b, c)).
C17_PrefixBinding ==
    (pc \in {"advance", "done"} /\ Toks \in PrefixInputs)
        => program = <<ExpressionStatementOf(Toks[1], PrefixExpected(Toks))>>

\* -a * 5 parsed to the end: the product of -a and 5
C17_Witness ==
    /\ pc = "done"
    /\ Toks = <<K("MINUS"), IdA, K("ASTERISK"), Int5>>
    /\ Len(program) = 1
    /\ program[1].Expression.kind = "InfixExpression"
    /\ program[1].Expression.Left.kind = "PrefixExpression"

(***************************************************************************)
(* Properties of hash literals and function parameters                     *)
(***************************************************************************)
\* C18: the pairs of the HashLiteral parsed from {k1: v1, ..., kn: vn} are
\* visited in source order: the i-th pair visited has the i-th key and the
\* i-th value of the source.
C18_HashPairsInSourceOrder ==
    (pc = "ranged" /\ Toks \in HashInputs)
        => /\ Len(visited) = (Len(Toks) - 1) \div 4
           /\ \A i \in 1..Len(visited) :
                  /\ visited[i].key.Token = Toks[4 * i - 2]
                  /\ visited[i].value.Token = Toks[4 * i]

\* C19: when a token in a parameter position of fn ( ... ) or macro ( ... )
\* is not an IDENT, a parser error is recorded: the program does not come
\* back with an empty error list.
C19_ParametersAreIdentifiers ==
    (pc \in {"advance", "done"} /\ Toks \in BadParamInputs)
        => p.errors # <<>>

(***************************************************************************)
(* Properties of expectPeek                                                *)
(***************************************************************************)
\* the token types the parser passes to expectPeek
ExpectedTypes ==
    {"IDENT", "ASSIGN", "LPAREN", "RPAREN", "LBRACE", "RBRACE", "RBRACKET",
     "COLON", "COMMA"}

\* the parser has room left for one more token and one more message
HasRoom == ~p.hung /\ p.pulls < MaxPulls /\ Len(p.errors) < MaxErrors

\* C20: expectPeek(t) either advances or reports, never both. When peekToken
\* has type t it returns true, moves the window on by exactly one token and
\* leaves the error list alone; otherwise it returns false, leaves curToken
\* and peekToken alone and appends exactly one message
\* "expected next token to be <t>, got <peek type> instead".
C20_ExpectPeekAdvancesOrReports ==
    HasRoom =>
        \A t \in ExpectedTypes :
            IF p.peekToken.Type = t
            THEN /\ expectPeek(p, t).ok
                 /\ expectPeek(p, t).p.curToken = p.peekToken
                 /\ expectPeek(p, t).p.peekToken = StreamToken(Toks, p.pulls)
                 /\ expectPeek(p, t).p.pulls = p.pulls + 1
                 /\ expectPeek(p, t).p.errors = p.errors
            ELSE /\ ~expectPeek(p, t).ok
                 /\ expectPeek(p, t).p.curToken = p.curToken
                 /\ expectPeek(p, t).p.peekToken = p.peekToken
                 /\ expectPeek(p, t).p.pulls = p.pulls
                 /\ expectPeek(p, t).p.errors =
                        Append(p.errors,
                               [msg |-> "expected next token to be",
                                want |-> t, got |-> p.peekToken.Type])

\* let = 1; parsed to the end: expectPeek(IDENT) has reported once, and the
\* window stands where either outcome of a further expectPeek can be seen
C20_Witness ==
    /\ pc = "done"
    /\ Toks = <<K("LET"), K("ASSIGN"), Int1, K("SEMICOLON")>>
    /\ p.errors # <<>>
    /\ p.errors[1] = [msg |-> "expected next token to be",
                       want |-> "IDENT", got |-> "ASSIGN"]
    /\ HasRoom

(***************************************************************************)
(* Progress of the tokenizer                                               *)
(***************************************************************************)
RECURSIVE NonEOFReturned(_, _)
\* how many of the first k tokens returned from the lexer l are not EOF
NonEOFReturned(l, k) ==
    IF k = 0 THEN 0
    ELSE (IF NextToken(l).tok.Type = "EOF" THEN 0 ELSE 1)
             + NonEOFReturned(NextToken(l).l, k - 1)

\* the furthest a call can take the cursor: one past the end of the input,
\* or one past where it stands when that is further
CursorLimit ==
    (IF lx.postion < Len(src) THEN Len(src) ELSE lx.postion) + 1

\* C21: the tokenizer always makes progress.  A NextToken call has a result
\* whenever it is made, and its loops stop no later than one byte past the
\* end of the input; readPosition = postion + 1 after New and after every
\* call; the cursor never moves backwards; a call that returns a token other
\* than EOF starts on a byte of the input and consumes at least one byte;
\* an input of n bytes yields at most n tokens other than EOF.
C21_TokenizerProgress ==
    /\ [](pc = "idle" =>
            /\ lx.readPosition = lx.postion + 1
            /\ ntok < MaxCalls => ENABLED <<NextTokenCall>>_vars
            /\ NonEOFReturned(LexerNew(src), ntok) <= Len(src))
    /\ [][(ntok' = ntok + 1)
              => /\ lx'.postion >= lx.postion
                 /\ lx'.postion <= CursorLimit
                 /\ tok'.Type # "EOF"
                        => /\ lx.postion < Len(src)
                           /\ lx'.postion >= lx.postion + 1]_vars

\* a=1 read to its EOF: three bytes, three tokens other than EOF, and the
\* cursor one past the end after the call that returned EOF
C21_Witness ==
    /\ src = <<97, 61, 49>>
    /\ ntok = 4
    /\ tok = EOFTok
    /\ NonEOFReturned(LexerNew(src), ntok) = 3
    /\ lx.postion = 4
====
